---- MODULE Spec2Model ----
(***************************************************************************)
(* State-machine model of src/components/ScreensaverHero.tsx: three boxes  *)
(* whose word particles bounce, gather into a column and are drawn into    *)
(* the box, followed by two scripted scenes and a full reset.              *)
(*                                                                         *)
(* Lengths are in hundredths of a CSS pixel, velocities in hundredths of a *)
(* pixel per frame, times in milliseconds.  A setTimeout is the set of its *)
(* remaining time: {} when no timer is pending, {r} when it fires in r ms. *)
(* A React ref holding "null" is 0 (frame ids) or <<>> (the snapshot).     *)
(***************************************************************************)
EXTENDS Integers, Sequences, FiniteSets, TLC

\* ------------------------------------------------------------------ bounds
\* full loops the user is allowed to start
MaxResets == 2
\* simulator frames run per mounted WordParticles instance
MaxFrames == 2
\* outcomes of Math.random() distinguished per createParticles call
NumSeeds == 2
\* largest partial step of the clock between two timer deadlines
Quantum == 500

\* --------------------------------------------------------------- constants
BOUND_W == 16000
BOUNCE_H == 16000
GAP == 1600
BOUND_H == BOUNCE_H
SPEED == 35
REP_DIST == 6000
REP_FORCE == 25
COL_SPACING == 2000
COL_X == BOUND_W \div 2
COL_BOTTOM_Y == BOUNCE_H - 1200

\* variant: the column grows downwards
colY_Downwards(i) == COL_BOTTOM_Y + i * COL_SPACING
colY(i) == COL_BOTTOM_Y - i * COL_SPACING

BOX_CX == BOUND_W \div 2
BOX_CY == BOUND_H + GAP + 8000

BOX_DATA ==
  << [id |-> "define", label |-> "DEFINE", closedLabel |-> "DEFINED",
      words |-> <<"Assumptions", "Context", "History", "Processes", "Problem", "Constraints">>],
     [id |-> "decide", label |-> "DECIDE", closedLabel |-> "DECIDED",
      words |-> <<"Options", "Trade-offs", "Modeling", "ROI", "Risk", "Sensitivity">>],
     [id |-> "deploy", label |-> "DEPLOY", closedLabel |-> "DEPLOYED",
      words |-> <<"Alignment", "Ownership", "Sequencing", "Execution", "Measurement", "Feedback">>] >>

\* box indices as the source numbers them (BOX_DATA.map((box, i) => ...))
Boxes == 0 .. (Len(BOX_DATA) - 1)

Box(i) == BOX_DATA[i + 1]

Phases == {"idle", "active", "gathering", "closing", "closed"}

\* timer delays (ms)
GATHER_MS == 660
CLOSING_MS == 560
\* the CSS transitions of the words: duration, and delay per render index
GATHER_TRANSITION_MS == 520
GATHER_STAGGER_MS == 40
CLOSE_TRANSITION_MS == 420
CLOSE_STAGGER_MS == 25
DEPLOY_SCENE_MS == 4500
\* the longest CSS animation of each scene
DEPLOY_ANIM_MS == 4400
DEFINE_ANIM_MS == 5000
DEFINE_DONE_MS == 5000
DEFINE_UNMOUNT_MS == 5100
SHAKE_MS == 500

\* ----------------------------------------------------------------- helpers
Abs(n) == IF n < 0 THEN -n ELSE n

Min(S) == CHOOSE m \in S : \A n \in S : m <= n

\* a / b rounded to the nearest integer (b > 0)
RDiv(a, b) == (2 * a + b) \div (2 * b)

RECURSIVE SqrtIter(_, _)
SqrtIter(n, g) ==
  LET h == (g + n \div g) \div 2
  IN  IF h >= g THEN g ELSE SqrtIter(n, h)

\* floor of the square root of n >= 0
ISqrt(n) == IF n < 2 THEN n ELSE SqrtIter(n, n)

\* Math.hypot on fixed-point lengths, rounded to the nearest unit
Hypot(dx, dy) ==
  LET n == dx * dx + dy * dy
      r == ISqrt(n)
  IN  IF n - r * r > r THEN r + 1 ELSE r

\* Math.cos(angle) * SPEED, Math.sin(angle) * SPEED for eight headings
Headings ==
  << <<35, 0>>, <<25, 25>>, <<0, 35>>, <<-25, 25>>,
     <<-35, 0>>, <<-25, -25>>, <<0, -35>>, <<25, -25>> >>

\* rand(min, max): one outcome of Math.random() per (seed, box, word, draw)
rand(lo, hi, seed, b, i, k) ==
  lo + ((seed * 7919 + b * 4337 + i * 2741 + k * 1013) % (hi - lo))

createParticles(words, seed, b) ==
  [i \in 1 .. Len(words) |->
     LET h == Headings[1 + rand(0, Len(Headings), seed, b, i, 0)]
     IN  [id |-> i - 1, word |-> words[i],
          x |-> rand(1600, BOUND_W - 1600, seed, b, i, 1),
          y |-> rand(1600, BOUNCE_H - 1600, seed, b, i, 2),
          vx |-> h[1], vy |-> h[2]]]

\* ------------------------------------------------- particle simulator step
\* variant: a wall turns the particle round without putting it on the wall
WallBounce_OnlyTurns(p) ==
  [p EXCEPT !.vx = IF p.x <= 0 THEN Abs(p.vx) ELSE IF p.x >= BOUND_W THEN -Abs(p.vx) ELSE @,
            !.vy = IF p.y <= 0 THEN Abs(p.vy) ELSE IF p.y >= BOUNCE_H THEN -Abs(p.vy) ELSE @]
\* wall bounce of one particle (the four tests run in this order)
WallBounce(p) ==
  LET a == IF p.x <= 0 THEN [p EXCEPT !.x = 0, !.vx = Abs(p.vx)] ELSE p
      b == IF a.x >= BOUND_W THEN [a EXCEPT !.x = BOUND_W, !.vx = -Abs(a.vx)] ELSE a
      c == IF b.y <= 0 THEN [b EXCEPT !.y = 0, !.vy = Abs(b.vy)] ELSE b
  IN  IF c.y >= BOUNCE_H THEN [c EXCEPT !.y = BOUNCE_H, !.vy = -Abs(c.vy)] ELSE c

\* does the pair at distance d get an impulse
Repels(d) == d < REP_DIST /\ d > 0

\* variant: the impulse does not fall off with the distance
Impulse_NoFalloff(delta, d) == RDiv(delta * REP_FORCE, d)
\* impulse on p from q along one axis: (delta / d) * ((REP_DIST - d) / REP_DIST) * REP_FORCE
Impulse(delta, d) == RDiv(delta * (REP_DIST - d) * REP_FORCE, d * REP_DIST)

\* repulsion between ps[i] (p) and ps[j] (q), j > i
Repel(ps, i, j) ==
  LET p  == ps[i]
      q  == ps[j]
      dx == p.x - q.x
      dy == p.y - q.y
      d  == Hypot(dx, dy)
  IN  IF Repels(d)
      THEN [ps EXCEPT ![i] = [p EXCEPT !.vx = p.vx + Impulse(dx, d), !.vy = p.vy + Impulse(dy, d)],
                      ![j] = [q EXCEPT !.vx = q.vx - Impulse(dx, d), !.vy = q.vy - Impulse(dy, d)]]
      ELSE ps

RECURSIVE RepelFrom(_, _, _)
RepelFrom(ps, i, j) ==
  IF j > Len(ps) THEN ps ELSE RepelFrom(Repel(ps, i, j), i, j + 1)

\* variant: only a particle faster than SPEED is rescaled
Normalise_OnlySlowsDown(p) ==
  LET n   == p.vx * p.vx + p.vy * p.vy
      spd == ISqrt(n * 10000)
  IN  IF n > SPEED * SPEED
      THEN [p EXCEPT !.vx = RDiv(p.vx * SPEED * 100, spd), !.vy = RDiv(p.vy * SPEED * 100, spd)]
      ELSE p
\* rescale the velocity to SPEED, a zero velocity is left alone
Normalise(p) ==
  LET n   == p.vx * p.vx + p.vy * p.vy
      spd == ISqrt(n * 10000)
  IN  IF n > 0
      THEN [p EXCEPT !.vx = RDiv(p.vx * SPEED * 100, spd), !.vy = RDiv(p.vy * SPEED * 100, spd)]
      ELSE p

Integrate(p) == [p EXCEPT !.x = p.x + p.vx, !.y = p.y + p.vy]

\* one iteration of the outer loop of animate, for ps[i]
AnimateOne(ps, i) ==
  LET a == [ps EXCEPT ![i] = WallBounce(ps[i])]
      b == RepelFrom(a, i, i + 1)
  IN  [b EXCEPT ![i] = Integrate(Normalise(b[i]))]

RECURSIVE AnimateFrom(_, _)
AnimateFrom(ps, i) ==
  IF i > Len(ps) THEN ps ELSE AnimateFrom(AnimateOne(ps, i), i + 1)

\* the particle mutation of one animate() call
AnimateParticles(ps) == AnimateFrom(ps, 1)

\* --------------------------------------------------------------- the state
VARIABLES
  phases,             \* ScreensaverHero: phases[i], the phase of box i
  defineSceneActive,  \* ScreensaverHero: the define scene is shown
  isShaking,          \* ScreensaverHero: the shake animation is on
  resetKey,           \* ScreensaverHero: bumped by every full reset
  shakeTimers,        \* remaining times of the setTimeout(..., 500) of handleDefineDone
  wp,                 \* wp[i]: the WordParticles instance of box i (refs and timers)
  scene,              \* scene[i]: the StickFigureScene instance of box i
  def,                \* def[i]: the DefineScene instance of box i
  input,              \* <<i>> when the last step was a click on box i, else <<>>
  lastHandler,        \* the last ScreensaverHero handler that ran
  sinceHandler,       \* ms elapsed since then, while timers are pending
  gatherDoneCalls,    \* gatherDoneCalls[i]: onGatherDone calls since box i entered gathering
  closingDoneCalls,   \* closingDoneCalls[i]: onClosingDone calls since box i entered closing
  activations,        \* activations[i]: runs of the scene effects of box i, the age in ms
                      \* and the sceneKey of the latest one
  doneCalls,          \* doneCalls[i]: onDone calls made by the scenes of box i
  sim                 \* the animate() call or click being taken statement by statement

vars == << phases, defineSceneActive, isShaking, resetKey, shakeTimers, wp, scene, def,
           input, lastHandler, sinceHandler, gatherDoneCalls, closingDoneCalls,
           activations, doneCalls, sim >>

\* variant: every box starts idle
InitPhases_AllIdle == [i \in Boxes |-> "idle"]

\* useState initial values of ScreensaverHero
InitPhases == [i \in Boxes |-> IF i = 0 THEN "active" ELSE "idle"]

\* variant: the reset leaves every box idle
ResetPhases_AllIdle == [i \in Boxes |-> "idle"]

\* setPhases(['active', 'idle', 'idle']) of the reset
ResetPhases == [i \in Boxes |-> IF i = 0 THEN "active" ELSE "idle"]

InitDefineSceneActive == FALSE

\* variant: the reset leaves the define scene on
ResetDefineSceneActive_Stays == TRUE
\* setDefineSceneActive(false) of the reset
ResetDefineSceneActive == FALSE

InitIsShaking == FALSE

InitResetKey == 0

\* ------------------------------------------------ WordParticles (one box)
\* a WordParticles that is not mounted: no refs, no timers
NoWordParticles ==
  [mounted |-> FALSE, particles |-> << >>, rafRef |-> 0, rafPending |-> {},
   frozen |-> << >>, gatherFired |-> FALSE, closingFired |-> FALSE,
   gatherT |-> {}, closingT |-> {}, frames |-> 0, renders |-> << >>]

\* the refs of a WordParticles at its first render
NewWordParticles == [NoWordParticles EXCEPT !.mounted = TRUE]

\* requestAnimationFrame(animate), the id kept in rafRef
RequestFrame(w) ==
  LET id == Min({n \in 1 .. (Cardinality(w.rafPending) + 1) : n \notin w.rafPending})
  IN  [w EXCEPT !.rafPending = @ \cup {id}, !.rafRef = id]

\* variant: the ref is cleared, the frame is not cancelled
CancelFrame_KeepsPending(w) == [w EXCEPT !.rafRef = 0]
\* if (rafRef.current !== null) { cancelAnimationFrame(rafRef.current); rafRef.current = null; }
CancelFrame(w) ==
  IF w.rafRef # 0 THEN [w EXCEPT !.rafPending = @ \ {w.rafRef}, !.rafRef = 0] ELSE w

\* effect on [resetKey]
ResetEffect(w) ==
  [w EXCEPT !.particles = << >>, !.gatherFired = FALSE, !.closingFired = FALSE,
            !.frozen = << >>]

\* variant: the particles are created on every run of the effect
PhysicsEffect_AlwaysCreates(w, boxPhase, words, seed, b) ==
  IF boxPhase \in {"idle", "active"}
  THEN RequestFrame([w EXCEPT !.gatherFired = FALSE, !.closingFired = FALSE,
                              !.frozen = << >>,
                              !.particles = createParticles(words, seed, b)])
  ELSE w
\* effect on [boxPhase, animate, resetKey]: start the physics loop
PhysicsEffect(w, boxPhase, words, seed, b) ==
  IF boxPhase \in {"idle", "active"}
  THEN RequestFrame([w EXCEPT !.gatherFired = FALSE, !.closingFired = FALSE,
                              !.frozen = << >>,
                              !.particles = IF Len(@) = 0
                                            THEN createParticles(words, seed, b)
                                            ELSE @])
  ELSE w

\* variant: the physics effect returns no cleanup
PhysicsCleanup_Missing(w, boxPhase) == w
\* its cleanup, which exists when the effect last ran in idle or active
PhysicsCleanup(w, boxPhase) ==
  IF boxPhase \in {"idle", "active"} THEN CancelFrame(w) ELSE w

\* variant: the snapshot has one entry more than there are particles
Snapshot_ExtraEntry(ps) ==
  [k \in 1 .. (Len(ps) + 1) |->
     IF k <= Len(ps) THEN [x |-> ps[k].x, y |-> ps[k].y] ELSE [x |-> 0, y |-> 0]]
\* particlesRef.current.map(p => ({ x: p.x, y: p.y }))
Snapshot(ps) == [k \in 1 .. Len(ps) |-> [x |-> ps[k].x, y |-> ps[k].y]]

\* variant: the gatherFired guard is inverted
GatherEffect_InvertedGuard(w, boxPhase) ==
  IF boxPhase # "gathering" THEN w
  ELSE LET c == CancelFrame(w)
           f == [c EXCEPT !.frozen = << [k \in 1 .. Len(c.particles) |->
                                          [x |-> c.particles[k].x, y |-> c.particles[k].y]] >>]
       IN  IF f.gatherFired
           THEN [f EXCEPT !.gatherFired = TRUE, !.gatherT = {GATHER_MS}]
           ELSE f

\* effect on [boxPhase, onGatherDone]
GatherEffect(w, boxPhase) ==
  IF boxPhase # "gathering" THEN w
  ELSE LET c == CancelFrame(w)
           f == [c EXCEPT !.frozen = << Snapshot(c.particles) >>]
       IN  IF ~f.gatherFired
           THEN [f EXCEPT !.gatherFired = TRUE, !.gatherT = {GATHER_MS}]
           ELSE f

\* its cleanup: clearTimeout(t)
GatherCleanup(w) == [w EXCEPT !.gatherT = {}]

\* variant: the closing effect discards the snapshot
ClosingEffect_DropsSnapshot(w, boxPhase) ==
  IF boxPhase # "closing" THEN w
  ELSE IF ~w.closingFired
       THEN [w EXCEPT !.closingFired = TRUE, !.closingT = {CLOSING_MS}, !.frozen = << >>]
       ELSE w
\* effect on [boxPhase, onClosingDone]
ClosingEffect(w, boxPhase) ==
  IF boxPhase # "closing" THEN w
  ELSE IF ~w.closingFired
       THEN [w EXCEPT !.closingFired = TRUE, !.closingT = {CLOSING_MS}]
       ELSE w

ClosingCleanup(w) == [w EXCEPT !.closingT = {}]

\* variant: the snapshot is looked up by render index from the end
RenderBase_Reversed(w, boxPhase, idx) ==
  LET p == w.particles[idx]
  IN  IF w.frozen # << >> /\ boxPhase \in {"gathering", "closing"}
      THEN w.frozen[1][Len(w.particles) + 1 - idx]
      ELSE [x |-> p.x, y |-> p.y]
\* render: px, py of the span at render index idx (1-based here), from the
\* snapshot entry frozen[p.id] in gathering and closing once it exists
RenderBase(w, boxPhase, idx) ==
  LET p == w.particles[idx]
  IN  IF w.frozen # << >> /\ boxPhase \in {"gathering", "closing"}
      THEN w.frozen[1][p.id + 1]
      ELSE [x |-> p.x, y |-> p.y]

\* render: where the transform of the span takes it; the source's idx is idx - 1
RenderTarget(w, boxPhase, idx) ==
  IF boxPhase = "gathering" THEN [x |-> COL_X, y |-> colY(idx - 1)]
  ELSE IF boxPhase = "closing" THEN [x |-> BOX_CX, y |-> BOX_CY]
  ELSE RenderBase(w, boxPhase, idx)

\* render: the transition of the span, 0 ms for 'none'
RenderTransition(boxPhase, idx) ==
  IF boxPhase = "gathering"
  THEN [duration |-> GATHER_TRANSITION_MS, delay |-> (idx - 1) * GATHER_STAGGER_MS]
  ELSE IF boxPhase = "closing"
  THEN [duration |-> CLOSE_TRANSITION_MS, delay |-> (idx - 1) * CLOSE_STAGGER_MS]
  ELSE [duration |-> 0, delay |-> 0]

\* one render of WordParticles: a span per particle, in the order of the array
Render(w, boxPhase) ==
  [idx \in 1 .. Len(w.particles) |->
     [id |-> w.particles[idx].id,
      base |-> RenderBase(w, boxPhase, idx),
      target |-> RenderTarget(w, boxPhase, idx),
      transition |-> RenderTransition(boxPhase, idx)]]

\* the renders of one commit: the one the parent asked for, made before the
\* effects run, and the one after the setTick of the gathering or closing effect
Renders(before, after, boxPhase) ==
  IF boxPhase \in {"gathering", "closing"}
  THEN << Render(before, boxPhase), Render(after, boxPhase) >>
  ELSE << Render(before, boxPhase) >>

\* variant: the word particles stay mounted in a closed box
showWords_Always(boxPhase) == TRUE
\* Box: {showWords && <WordParticles ... />}
showWords(boxPhase) == boxPhase # "closed"

\* The commit of box b's WordParticles after a render of ScreensaverHero that
\* changes the box phase from old to new and the reset key from oldKey to
\* newKey.  The inline onGatherDone / onClosingDone props are new functions in
\* every such render, so the gather and closing effects always re-run.
WordParticlesCommit(w, old, new, oldKey, newKey, seed, b) ==
  LET words == Box(b).words
  IN  IF ~showWords(new)
      THEN \* unmount: every cleanup runs, the instance is dropped
           IF w.mounted
           THEN [NoWordParticles EXCEPT
                   !.rafPending = ClosingCleanup(GatherCleanup(PhysicsCleanup(w, old))).rafPending]
           ELSE w
      ELSE IF ~w.mounted
      THEN \* mount: the first render, then every effect in the order of the source
           LET m == [NewWordParticles EXCEPT !.rafPending = w.rafPending]
               e == ClosingEffect(GatherEffect(PhysicsEffect(ResetEffect(m),
                                                            new, words, seed, b), new), new)
           IN  [e EXCEPT !.renders = Renders(m, e, new)]
      ELSE \* update: the render, then the cleanups of the effects whose
           \* dependencies changed, then the effects
           LET physics == old # new \/ oldKey # newKey
               c1 == IF physics THEN PhysicsCleanup(w, old) ELSE w
               c2 == ClosingCleanup(GatherCleanup(c1))
               e1 == IF oldKey # newKey THEN ResetEffect(c2) ELSE c2
               e2 == IF physics THEN PhysicsEffect(e1, new, words, seed, b) ELSE e1
               e3 == ClosingEffect(GatherEffect(e2, new), new)
           IN  [e3 EXCEPT !.renders = Renders(w, e3, new)]

\* --------------------------------------------- the two scripted scenes
\* StickFigureScene: useState(0), useState(false), no timer
NoScene == [mounted |-> FALSE, sceneKey |-> 0, done |-> FALSE, t |-> {}]

\* variant: the effect leaves sceneKey alone
StickFigureEffect_KeepsKey(s, active) ==
  IF active
  THEN [s EXCEPT !.done = FALSE, !.t = @ \cup {DEPLOY_SCENE_MS}]
  ELSE s
\* its effect on [active], run when the scene mounts with active = true
StickFigureEffect(s, active) ==
  IF active
  THEN [s EXCEPT !.done = FALSE, !.sceneKey = @ + 1, !.t = @ \cup {DEPLOY_SCENE_MS}]
  ELSE s

\* the cleanup of that effect: clearTimeout(t)
StickFigureCleanup(s) == [s EXCEPT !.t = {}]

\* Box: {showScene && <StickFigureScene active={!!showScene} ... />}; the
\* effect runs at the mount (active never changes while the scene is mounted)
\* and its cleanup at the unmount; a timer that is not cleared outlives the
\* instance
StickFigureCommit(s, show) ==
  IF ~show
  THEN IF s.mounted THEN [NoScene EXCEPT !.t = StickFigureCleanup(s).t] ELSE s
  ELSE IF ~s.mounted
       THEN StickFigureEffect([NoScene EXCEPT !.mounted = TRUE, !.t = s.t], show)
       ELSE s

\* DefineScene: useState(0), useState(false), no timers
NoDefineScene ==
  [mounted |-> FALSE, sceneKey |-> 0, done |-> FALSE, tDone |-> {}, tUnmount |-> {}]

\* variant: onDone is called by a timer as long as the one that hides the scene
DefineEffect_DoneAtUnmount(s, active) ==
  IF active
  THEN [s EXCEPT !.done = FALSE, !.sceneKey = @ + 1,
                 !.tDone = @ \cup {DEFINE_UNMOUNT_MS},
                 !.tUnmount = @ \cup {DEFINE_UNMOUNT_MS}]
  ELSE s
\* variant: the scene is hidden by a timer as long as the one of onDone
DefineEffect_HidesAtDone(s, active) ==
  IF active
  THEN [s EXCEPT !.done = FALSE, !.sceneKey = @ + 1,
                 !.tDone = @ \cup {DEFINE_DONE_MS},
                 !.tUnmount = @ \cup {DEFINE_DONE_MS}]
  ELSE s
\* the effect of DefineScene on [active]
DefineEffect(s, active) ==
  IF active
  THEN [s EXCEPT !.done = FALSE, !.sceneKey = @ + 1,
                 !.tDone = @ \cup {DEFINE_DONE_MS},
                 !.tUnmount = @ \cup {DEFINE_UNMOUNT_MS}]
  ELSE s

\* the cleanup of that effect: clearTimeout(tDone); clearTimeout(tUnmount)
DefineCleanup(s) == [s EXCEPT !.tDone = {}, !.tUnmount = {}]

\* variant: the effect has no dependency list and no cleanup, it runs again
\* after every render and leaves its timers behind
DefineCommit_RunsAgain(s, show) ==
  IF ~show
  THEN IF s.mounted
       THEN [NoDefineScene EXCEPT !.tDone = s.tDone, !.tUnmount = s.tUnmount]
       ELSE s
  ELSE [s EXCEPT !.mounted = TRUE, !.done = FALSE,
                 !.sceneKey = IF s.mounted THEN @ + 1 ELSE 1,
                 !.tDone = @ \cup {DEFINE_DONE_MS},
                 !.tUnmount = @ \cup {DEFINE_UNMOUNT_MS}]
\* Box: {showDefineScene && <DefineScene active={!!showDefineScene} ... />}
DefineCommit(s, show) ==
  IF ~show
  THEN IF s.mounted
       THEN [NoDefineScene EXCEPT !.tDone = DefineCleanup(s).tDone,
                                  !.tUnmount = DefineCleanup(s).tUnmount]
       ELSE s
  ELSE IF ~s.mounted
       THEN DefineEffect([NoDefineScene EXCEPT !.mounted = TRUE, !.tDone = s.tDone,
                                               !.tUnmount = s.tUnmount], show)
       ELSE s

\* what a scene paints: if (!active || done) return null
SceneVisible(s) == s.mounted /\ ~s.done

\* ------------------------------------------------------- ScreensaverHero
\* variant: phases.some instead of phases.every
allClosed_Some(ph) == \E i \in Boxes : ph[i] = "closed"

allClosed(ph) == \A i \in Boxes : ph[i] = "closed"

\* the props ScreensaverHero passes to box i
showScene(i, ph) == Box(i).id = "deploy" /\ allClosed(ph)

\* variant: the define scene ignores defineSceneActive
showDefineScene_NoFlag(i, dsa) == Box(i).id = "define"

showDefineScene(i, dsa) == Box(i).id = "define" /\ dsa

\* variant: an idle box takes clicks too
isActive_OrIdle(boxPhase) == boxPhase \in {"active", "idle"}

\* Box: onClick={isActive ? onClick : undefined}
isActive(boxPhase) == boxPhase = "active"

\* Box: {isClosed ? closedLabel : label}
\* variant: the label never changes
shownLabel_AlwaysNormal(i, boxPhase) == Box(i).label
\* Box: {isClosed ? closedLabel : label}
shownLabel(i, boxPhase) ==
  IF boxPhase = "closed" THEN Box(i).closedLabel ELSE Box(i).label

\* variant: only the define box shakes
boxShake_OnlyDefine(i, sh) == sh /\ Box(i).id = "define"
\* Box i: animation: isShaking ? 'boxShake 500ms ...' : 'none', with the
\* isShaking of ScreensaverHero passed to every box
boxShake(i, sh) == sh

handleClick(ph, i) == [ph EXCEPT ![i] = "gathering"]

\* variant: gather-complete closes the box at once
handleGatherDone_SkipsClosing(ph, i) == [ph EXCEPT ![i] = "closed"]

handleGatherDone(ph, i) == [ph EXCEPT ![i] = "closing"]

\* variant: the bound of the next-box test is off by one
handleClosingDone_OffByOne(ph, i) ==
  LET n == [ph EXCEPT ![i] = "closed"]
  IN  IF i + 2 < Len(BOX_DATA) THEN [n EXCEPT ![i + 1] = "active"] ELSE n

handleClosingDone(ph, i) ==
  LET n == [ph EXCEPT ![i] = "closed"]
  IN  IF i + 1 < Len(BOX_DATA) THEN [n EXCEPT ![i + 1] = "active"] ELSE n

\* variant: the define scene is never switched on
handleDeployDone_Noop(dsa) == dsa

\* handleDeployDone: setDefineSceneActive(true)
handleDeployDone(dsa) == TRUE

\* variant: the key is bumped twice
ResetKeyBump_Twice(k) == k + 2

\* the reset key after the timeout callback of handleDefineDone
ResetKeyBump(k) == k + 1

\* The commit that follows a handler: w, s, d are the component instances
\* after the handler's own changes; newPhases, newDsa, newKey the new state of
\* ScreensaverHero; rendered tells whether ScreensaverHero rendered again;
\* gathered and closedBy hold the box whose onGatherDone / onClosingDone
\* callback the handler was.  CommitScenes is its part outside WordParticles,
\* oldPhases the phases before the handler.
CommitScenes(oldPhases, s, d, newPhases, newDsa, gathered, closedBy) ==
  /\ scene' = [i \in Boxes |-> StickFigureCommit(s[i], showScene(i, newPhases))]
  /\ def' = [i \in Boxes |-> DefineCommit(d[i], showDefineScene(i, newDsa))]
  /\ gatherDoneCalls' =
       [i \in Boxes |-> IF newPhases[i] = "gathering" /\ oldPhases[i] # "gathering"
                        THEN 0
                        ELSE gatherDoneCalls[i] + (IF i \in gathered THEN 1 ELSE 0)]
  /\ closingDoneCalls' =
       [i \in Boxes |-> IF newPhases[i] = "closing" /\ oldPhases[i] # "closing"
                        THEN 0
                        ELSE closingDoneCalls[i] + (IF i \in closedBy THEN 1 ELSE 0)]
  /\ activations' =
       [i \in Boxes |->
          LET a == activations[i]
              sNew == StickFigureCommit(s[i], showScene(i, newPhases))
              dNew == DefineCommit(d[i], showDefineScene(i, newDsa))
              sRan == sNew.mounted /\ (~s[i].mounted \/ sNew # s[i])
              dRan == dNew.mounted /\ (~d[i].mounted \/ dNew # d[i])
          IN  [scene |-> a.scene + (IF sRan THEN 1 ELSE 0),
               sceneAge |-> IF sNew.mounted /\ ~sRan THEN a.sceneAge ELSE 0,
               sceneToken |-> IF sRan THEN sNew.sceneKey ELSE a.sceneToken,
               def |-> a.def + (IF dRan THEN 1 ELSE 0),
               defAge |-> IF dNew.mounted /\ ~dRan THEN a.defAge ELSE 0,
               defToken |-> IF dRan THEN dNew.sceneKey ELSE a.defToken]]

Commit(w, s, d, newPhases, newDsa, newKey, rendered, seed, gathered, closedBy) ==
  /\ wp' = IF rendered
           THEN [i \in Boxes |->
                   WordParticlesCommit(w[i], phases[i], newPhases[i], resetKey, newKey, seed, i)]
           ELSE w
  /\ CommitScenes(phases, s, d, newPhases, newDsa, gathered, closedBy)

Seeds == 1 .. NumSeeds

Handled(type, i) ==
  /\ lastHandler' = [type |-> type, box |-> i]
  /\ sinceHandler' = 0

\* nothing is being stepped through
NoSim ==
  [ps |-> << >>, start |-> << >>, i |-> 0, j |-> 0, pc |-> "off", frame |-> 0, log |-> << >>]

\* the state after the first render and its effects
HeroInit ==
  /\ phases = InitPhases
  /\ defineSceneActive = InitDefineSceneActive
  /\ isShaking = InitIsShaking
  /\ resetKey = InitResetKey
  /\ shakeTimers = << >>
  /\ \E seed \in Seeds :
       wp = [i \in Boxes |->
               WordParticlesCommit(NoWordParticles, InitPhases[i], InitPhases[i],
                                   InitResetKey, InitResetKey, seed, i)]
  /\ scene = [i \in Boxes |-> StickFigureCommit(NoScene, showScene(i, InitPhases))]
  /\ def = [i \in Boxes |-> DefineCommit(NoDefineScene, showDefineScene(i, InitDefineSceneActive))]
  /\ input = << >>
  /\ lastHandler = [type |-> "init", box |-> 0]
  /\ sinceHandler = 0
  /\ gatherDoneCalls = [i \in Boxes |-> 0]
  /\ closingDoneCalls = [i \in Boxes |-> 0]
  /\ activations = [i \in Boxes |-> [scene |-> 0, sceneAge |-> 0, sceneToken |-> 0,
                                      def |-> 0, defAge |-> 0, defToken |-> 0]]
  /\ doneCalls = [i \in Boxes |-> [scene |-> 0, def |-> 0]]

Init == HeroInit /\ sim = NoSim

\* ----------------------------------------------------------------- actions
\* remaining times of every pending timer
PendingTimers ==
  UNION {wp[i].gatherT \cup wp[i].closingT \cup scene[i].t \cup def[i].tDone \cup def[i].tUnmount
         : i \in Boxes}
    \cup {shakeTimers[k] : k \in 1 .. Len(shakeTimers)}

\* a click on box i; the box has a click handler only while it is active
Click(i) ==
  /\ resetKey < MaxResets
  /\ input' = << i >>
  /\ IF isActive(phases[i])
     THEN /\ phases' = handleClick(phases, i)
          /\ \E seed \in Seeds :
               Commit(wp, scene, def, phases', defineSceneActive, resetKey, TRUE, seed, {}, {})
          /\ Handled("click", i)
          /\ UNCHANGED << defineSceneActive, isShaking, resetKey, shakeTimers >>
     ELSE UNCHANGED << phases, defineSceneActive, isShaking, resetKey, shakeTimers, wp,
                       scene, def, lastHandler, sinceHandler, gatherDoneCalls,
                       closingDoneCalls, activations >>
  /\ UNCHANGED << doneCalls, sim >>

\* an animation frame of box i: one pending animate() callback runs
Frame(i) ==
  /\ wp[i].frames < MaxFrames
  /\ \E id \in wp[i].rafPending :
       wp' = [wp EXCEPT ![i] =
                LET a == RequestFrame([@ EXCEPT !.rafPending = @ \ {id},
                                              !.particles = AnimateParticles(@),
                                              !.frames = @ + 1])
                IN  [a EXCEPT !.renders = << Render(a, phases[i]) >>]]
  /\ input' = << >>
  /\ UNCHANGED << phases, defineSceneActive, isShaking, resetKey, shakeTimers, scene, def,
                  lastHandler, sinceHandler, gatherDoneCalls, closingDoneCalls,
                  activations, doneCalls, sim >>

\* d ms pass; no timer is due, and time is only observed while a timer is pending
Advance ==
  /\ PendingTimers # {}
  /\ 0 \notin PendingTimers
  /\ \E d \in {Min(PendingTimers)} \cup {q \in {Quantum} : q < Min(PendingTimers)} :
       /\ wp' = [i \in Boxes |->
                   [wp[i] EXCEPT !.gatherT = {r - d : r \in @},
                                 !.closingT = {r - d : r \in @}]]
       /\ scene' = [i \in Boxes |-> [scene[i] EXCEPT !.t = {r - d : r \in @}]]
       /\ def' = [i \in Boxes |->
                    [def[i] EXCEPT !.tDone = {r - d : r \in @},
                                   !.tUnmount = {r - d : r \in @}]]
       /\ shakeTimers' = [k \in 1 .. Len(shakeTimers) |-> shakeTimers[k] - d]
       /\ sinceHandler' = sinceHandler + d
       /\ activations' =
            [i \in Boxes |->
               [activations[i] EXCEPT
                  !.sceneAge = IF scene[i].mounted THEN @ + d ELSE @,
                  !.defAge = IF def[i].mounted THEN @ + d ELSE @]]
  /\ input' = << >>
  /\ UNCHANGED << phases, defineSceneActive, isShaking, resetKey, lastHandler,
                  gatherDoneCalls, closingDoneCalls, doneCalls, sim >>

\* setTimeout(onGatherDone, 660) of box i fires
GatherTimer(i) ==
  /\ 0 \in wp[i].gatherT
  /\ phases' = handleGatherDone(phases, i)
  /\ \E seed \in Seeds :
       Commit([wp EXCEPT ![i].gatherT = {}], scene, def, phases', defineSceneActive,
              resetKey, TRUE, seed, {i}, {})
  /\ Handled("gatherDone", i)
  /\ input' = << >>
  /\ UNCHANGED << defineSceneActive, isShaking, resetKey, shakeTimers, doneCalls, sim >>

\* setTimeout(onClosingDone, 560) of box i fires
ClosingTimer(i) ==
  /\ 0 \in wp[i].closingT
  /\ phases' = handleClosingDone(phases, i)
  /\ \E seed \in Seeds :
       Commit([wp EXCEPT ![i].closingT = {}], scene, def, phases', defineSceneActive,
              resetKey, TRUE, seed, {}, {i})
  /\ Handled("closingDone", i)
  /\ input' = << >>
  /\ UNCHANGED << defineSceneActive, isShaking, resetKey, shakeTimers, doneCalls, sim >>

\* the 4500 ms timer of the StickFigureScene of box i fires:
\* setDone(true); onDone?.() with onDone = handleDeployDone on the deploy box
DeployTimer(i) ==
  /\ 0 \in scene[i].t
  /\ LET s == [scene EXCEPT ![i].t = @ \ {0}, ![i].done = TRUE]
     IN  IF Box(i).id = "deploy"
         THEN /\ defineSceneActive' = handleDeployDone(defineSceneActive)
              /\ \E seed \in Seeds :
                   Commit(wp, s, def, phases, defineSceneActive', resetKey,
                          defineSceneActive' # defineSceneActive, seed, {}, {})
              /\ Handled("deployDone", i)
              /\ doneCalls' = [doneCalls EXCEPT ![i].scene = @ + 1]
         ELSE /\ scene' = s
              /\ UNCHANGED << defineSceneActive, wp, def, lastHandler, sinceHandler,
                              gatherDoneCalls, closingDoneCalls, activations, doneCalls >>
  /\ input' = << >>
  /\ UNCHANGED << phases, isShaking, resetKey, shakeTimers, sim >>

\* the 5000 ms timer of the DefineScene of box i fires:
\* onDone?.() with onDone = handleDefineDone on the define box, which starts
\* the shake and schedules the reset
DefineDoneTimer(i) ==
  /\ 0 \in def[i].tDone
  /\ LET d == [def EXCEPT ![i].tDone = @ \ {0}]
     IN  IF Box(i).id = "define"
         THEN /\ isShaking' = TRUE
              /\ shakeTimers' = Append(shakeTimers, SHAKE_MS)
              /\ \E seed \in Seeds :
                   Commit(wp, scene, d, phases, defineSceneActive, resetKey,
                          isShaking' # isShaking, seed, {}, {})
              /\ Handled("defineDone", i)
              /\ doneCalls' = [doneCalls EXCEPT ![i].def = @ + 1]
         ELSE /\ def' = d
              /\ UNCHANGED << isShaking, shakeTimers, wp, scene, lastHandler, sinceHandler,
                              gatherDoneCalls, closingDoneCalls, activations, doneCalls >>
  /\ input' = << >>
  /\ UNCHANGED << phases, defineSceneActive, resetKey, sim >>

\* the 5100 ms timer of the DefineScene of box i fires: setDone(true)
DefineUnmountTimer(i) ==
  /\ 0 \in def[i].tUnmount
  /\ def' = [def EXCEPT ![i].tUnmount = @ \ {0}, ![i].done = TRUE]
  /\ input' = << >>
  /\ UNCHANGED << phases, defineSceneActive, isShaking, resetKey, shakeTimers, wp, scene,
                  lastHandler, sinceHandler, gatherDoneCalls, closingDoneCalls,
                  activations, doneCalls, sim >>

\* the 500 ms timer of handleDefineDone fires: the full reset
ResetTimer ==
  \E k \in 1 .. Len(shakeTimers) :
    /\ shakeTimers[k] = 0
    /\ shakeTimers' = [j \in 1 .. (Len(shakeTimers) - 1) |->
                         IF j < k THEN shakeTimers[j] ELSE shakeTimers[j + 1]]
    /\ isShaking' = FALSE
    /\ defineSceneActive' = ResetDefineSceneActive
    /\ resetKey' = ResetKeyBump(resetKey)
    /\ phases' = ResetPhases
    /\ \E seed \in Seeds :
         Commit(wp, scene, def, phases', defineSceneActive', resetKey', TRUE, seed, {}, {})
    /\ Handled("reset", 0)
    /\ input' = << >>
    /\ UNCHANGED << doneCalls, sim >>

Next ==
  \/ \E i \in Boxes : Click(i)
  \/ \E i \in Boxes : Frame(i)
  \/ Advance
  \/ \E i \in Boxes : GatherTimer(i)
  \/ \E i \in Boxes : ClosingTimer(i)
  \/ \E i \in Boxes : DeployTimer(i)
  \/ \E i \in Boxes : DefineDoneTimer(i)
  \/ \E i \in Boxes : DefineUnmountTimer(i)
  \/ ResetTimer

Spec == Init /\ [][Next]_vars

\* timers fire and time passes; nothing is assumed about clicks or frames
Fairness ==
  /\ WF_vars(Advance)
  /\ WF_vars(ResetTimer)
  /\ \A i \in Boxes :
       /\ WF_vars(GatherTimer(i))
       /\ WF_vars(ClosingTimer(i))
       /\ WF_vars(DeployTimer(i))
       /\ WF_vars(DefineDoneTimer(i))
       /\ WF_vars(DefineUnmountTimer(i))

FairSpec == Spec /\ Fairness

\* ------------------------------------------- one click, step by step
\* A click on an active box taken in the steps React makes of it, in one
\* task: the handler queues the new phases (line 692); ScreensaverHero, the
\* boxes and their WordParticles render with them; the cleanups of the
\* effects whose dependencies changed run, for every component; then the
\* effects run.  sim.pc tells which step is next, sim.i is the clicked box,
\* sim.start holds the phases and sim.ps the WordParticles before the click.  A click is a discrete
\* event: React 18 runs the render, the cleanups and the effects before the
\* handler's task ends, so no frame or timer callback runs in between.

\* the render of a WordParticles with its new boxPhase (lines 147-184)
CommitRender(w, new) ==
  IF w.mounted /\ showWords(new) THEN [w EXCEPT !.renders = << Render(w, new) >>] ELSE w

\* the cleanups of its effects: line 122 if boxPhase changed, lines 133, 143
CommitCleanups(w, old, new) ==
  IF w.mounted /\ showWords(new)
  THEN ClosingCleanup(GatherCleanup(IF old # new THEN PhysicsCleanup(w, old) ELSE w))
  ELSE w

\* its effects, in the order of the source (lines 113-145); setTick in the
\* gathering and closing effects makes it render again
CommitEffects(w, old, new, seed, b) ==
  IF w.mounted /\ showWords(new)
  THEN LET e2 == IF old # new THEN PhysicsEffect(w, new, Box(b).words, seed, b) ELSE w
           e3 == ClosingEffect(GatherEffect(e2, new), new)
       IN  [e3 EXCEPT !.renders = IF new \in {"gathering", "closing"}
                                  THEN Append(w.renders, Render(e3, new))
                                  ELSE w.renders]
  ELSE w

\* onClick of an active box: handleClick(i) queues the new phases
ClickHandler(i) ==
  /\ sim.pc = "off"
  /\ resetKey < MaxResets
  /\ isActive(phases[i])
  /\ phases' = handleClick(phases, i)
  /\ input' = << i >>
  /\ Handled("click", i)
  /\ sim' = [NoSim EXCEPT !.pc = "render", !.i = i, !.start = << phases >>, !.ps = wp]
  /\ UNCHANGED << defineSceneActive, isShaking, resetKey, shakeTimers, wp, scene, def,
                  gatherDoneCalls, closingDoneCalls, activations, doneCalls >>

\* a box that is not active has no click handler
ClickIgnored(i) ==
  /\ sim.pc = "off"
  /\ resetKey < MaxResets
  /\ ~isActive(phases[i])
  /\ input' = << i >>
  /\ UNCHANGED << phases, defineSceneActive, isShaking, resetKey, shakeTimers, wp, scene, def,
                  lastHandler, sinceHandler, gatherDoneCalls, closingDoneCalls, activations,
                  doneCalls, sim >>

ClickRender ==
  /\ sim.pc = "render"
  /\ wp' = [b \in Boxes |-> CommitRender(wp[b], phases[b])]
  /\ sim' = [sim EXCEPT !.pc = "cleanup"]
  /\ UNCHANGED << phases, defineSceneActive, isShaking, resetKey, shakeTimers, scene, def,
                  input, lastHandler, sinceHandler, gatherDoneCalls, closingDoneCalls,
                  activations, doneCalls >>

ClickCleanups ==
  /\ sim.pc = "cleanup"
  /\ wp' = [b \in Boxes |-> CommitCleanups(wp[b], sim.start[1][b], phases[b])]
  /\ sim' = [sim EXCEPT !.pc = "effects"]
  /\ UNCHANGED << phases, defineSceneActive, isShaking, resetKey, shakeTimers, scene, def,
                  input, lastHandler, sinceHandler, gatherDoneCalls, closingDoneCalls,
                  activations, doneCalls >>

ClickEffects ==
  /\ sim.pc = "effects"
  /\ \E seed \in Seeds :
       wp' = [b \in Boxes |-> CommitEffects(wp[b], sim.start[1][b], phases[b], seed, b)]
  /\ CommitScenes(sim.start[1], scene, def, phases, defineSceneActive, {}, {})
  /\ sim' = NoSim
  /\ UNCHANGED << phases, defineSceneActive, isShaking, resetKey, shakeTimers, input,
                  lastHandler, sinceHandler, doneCalls >>

\* every other callback is a task of its own
OtherTask ==
  /\ sim.pc = "off"
  /\ \/ \E i \in Boxes : Frame(i)
     \/ Advance
     \/ \E i \in Boxes : GatherTimer(i)
     \/ \E i \in Boxes : ClosingTimer(i)
     \/ \E i \in Boxes : DeployTimer(i)
     \/ \E i \in Boxes : DefineDoneTimer(i)
     \/ \E i \in Boxes : DefineUnmountTimer(i)
     \/ ResetTimer

ClickNext ==
  \/ \E i \in Boxes : ClickHandler(i)
  \/ \E i \in Boxes : ClickIgnored(i)
  \/ ClickRender
  \/ ClickCleanups
  \/ ClickEffects
  \/ OtherTask

ClickSpec == Init /\ [][ClickNext]_vars

\* the steps of a click end in the state the commit gives when taken at once
ClickStepsAgree ==
  [][(sim.pc = "effects") =>
       \E seed \in Seeds :
         wp' = [b \in Boxes |->
                  WordParticlesCommit(sim.ps[b], sim.start[1][b], phases[b],
                                      resetKey, resetKey, seed, b)]]_vars

\* ------------------------------------ one animate() call, step by step
\* The body of animate (lines 86-111) taken one statement at a time on a
\* particle array: for each particle the wall tests, the inner repulsion
\* loop, the normalisation and the integration.  The arrays it starts from
\* are chosen below; the components stay as they were first rendered.
heroVars == << phases, defineSceneActive, isShaking, resetKey, shakeTimers, wp, scene, def,
               input, lastHandler, sinceHandler, gatherDoneCalls, closingDoneCalls,
               activations, doneCalls >>

SimParticle(k, pos, v) ==
  [id |-> k - 1, word |-> Box(0).words[k], x |-> pos[1], y |-> pos[2], vx |-> v[1], vy |-> v[2]]

\* where the first particle is: next to each wall, on a wall, in a corner,
\* in the middle
SimPositions ==
  { <<10, 8000>>, <<15990, 8000>>, <<8000, 10>>, <<8000, 15990>>,
    <<0, 8000>>, <<16000, 16000>>, <<8000, 8000>> }

\* where the second particle is, relative to the first: on top of it, near,
\* at 50 px, at exactly REP_DIST, beyond REP_DIST
SimOffsets == { <<0, 0>>, <<1920, 0>>, <<3000, 4000>>, <<3600, 4800>>, <<7000, 0>> }

\* the second particle is put on the side of the first that is inside the area
Beside(pos, off) ==
  << IF pos[1] > BOUND_W \div 2 THEN pos[1] - off[1] ELSE pos[1] + off[1],
     IF pos[2] > BOUNCE_H \div 2 THEN pos[2] - off[2] ELSE pos[2] + off[2] >>

\* the other four particles, away from the walls
SimRest ==
  << SimParticle(3, <<2000, 2000>>, Headings[2]), SimParticle(4, <<14000, 2000>>, Headings[4]),
     SimParticle(5, <<2000, 14000>>, Headings[8]), SimParticle(6, <<14000, 14000>>, Headings[6]) >>

\* two neighbours whose impulses cancel the velocity of the first particle
SimStalled ==
  << SimParticle(1, <<8000, 8000>>, Headings[1]), SimParticle(2, <<9920, 8000>>, Headings[3]),
     SimParticle(3, <<9680, 8000>>, Headings[7]) >>
    \o SubSeq(SimRest, 2, 4)

SimConfigs ==
  { << SimParticle(1, pos, Headings[h]), SimParticle(2, Beside(pos, off), Headings[4]) >>
      \o SimRest : pos \in SimPositions, off \in SimOffsets, h \in 1 .. Len(Headings) }
    \cup {SimStalled}

\* sim.log[k]: what the call has done to particle k so far, in order; other
\* is the particle an impulse was exchanged with
NoLog(ps) == [k \in 1 .. Len(ps) |-> << >>]

Logged(op, other) == [op |-> op, other |-> other]

AnimInit ==
  /\ HeroInit
  /\ \E c \in SimConfigs :
       sim = [ps |-> c, start |-> c, i |-> 1, j |-> 2, pc |-> "wall", frame |-> 1,
              log |-> NoLog(c)]

\* variant: the velocity is normalised before the inner loop
StageAfter_NormaliseFirst(pc, i, j, n) ==
  IF pc = "wall" THEN "normalise"
  ELSE IF pc = "normalise" THEN (IF i < n THEN "repel" ELSE "integrate")
  ELSE IF pc = "repel" THEN (IF j < n THEN "repel" ELSE "integrate")
  ELSE IF i < n THEN "wall" ELSE "done"
\* the order of the statements of animate: for particle i the wall tests,
\* the inner loop over j = i + 1 .. n, the normalisation, the integration
StageAfter(pc, i, j, n) ==
  IF pc = "wall" THEN (IF i < n THEN "repel" ELSE "normalise")
  ELSE IF pc = "repel" THEN (IF j < n THEN "repel" ELSE "normalise")
  ELSE IF pc = "normalise" THEN "integrate"
  ELSE IF i < n THEN "wall" ELSE "done"

\* lines 90-93: the four wall tests of particle i
AnimateWall ==
  /\ sim.pc = "wall"
  /\ sim' = [sim EXCEPT !.ps[sim.i] = WallBounce(@), !.j = sim.i + 1,
                        !.log[sim.i] = Append(@, Logged("wall", 0)),
                        !.pc = StageAfter("wall", sim.i, sim.j, Len(sim.ps))]
  /\ UNCHANGED heroVars

\* lines 94-104: one pass of the inner loop, the pair (i, j)
AnimateRepel ==
  /\ sim.pc = "repel"
  /\ LET hit == Repel(sim.ps, sim.i, sim.j) # sim.ps
     IN  sim' = [sim EXCEPT !.ps = Repel(@, sim.i, sim.j), !.j = @ + 1,
                            !.log[sim.i] = IF hit THEN Append(@, Logged("repel", sim.j)) ELSE @,
                            !.log[sim.j] = IF hit THEN Append(@, Logged("repel", sim.i)) ELSE @,
                            !.pc = StageAfter("repel", sim.i, sim.j, Len(sim.ps))]
  /\ UNCHANGED heroVars

\* lines 105-106
AnimateNormalise ==
  /\ sim.pc = "normalise"
  /\ sim' = [sim EXCEPT !.ps[sim.i] = Normalise(@),
                        !.log[sim.i] = Append(@, Logged("normalise", 0)),
                        !.pc = StageAfter("normalise", sim.i, sim.j, Len(sim.ps))]
  /\ UNCHANGED heroVars

\* line 107, then the next particle or the end of the call (lines 109-110)
AnimateIntegrate ==
  /\ sim.pc = "integrate"
  /\ sim' = [sim EXCEPT !.ps[sim.i] = Integrate(@),
                        !.log[sim.i] = Append(@, Logged("integrate", 0)),
                        !.i = IF sim.i < Len(sim.ps) THEN @ + 1 ELSE @,
                        !.pc = StageAfter("integrate", sim.i, sim.j, Len(sim.ps))]
  /\ UNCHANGED heroVars

\* the frame requested on line 110 runs animate again
AnimateAgain ==
  /\ sim.pc = "done"
  /\ sim.frame < MaxFrames
  /\ sim' = [sim EXCEPT !.start = sim.ps, !.i = 1, !.j = 2, !.pc = "wall", !.frame = @ + 1,
                        !.log = NoLog(sim.ps)]
  /\ UNCHANGED heroVars

AnimNext ==
  \/ AnimateWall
  \/ AnimateRepel
  \/ AnimateNormalise
  \/ AnimateIntegrate
  \/ AnimateAgain

AnimSpec == AnimInit /\ [][AnimNext]_vars

\* ------------------------------------------------------------------ claims
\* phase vectors and steps the claims speak of, written out
StartPhases == (0 :> "active") @@ (1 :> "idle") @@ (2 :> "idle")

AllBoxesClosed == \A i \in 0 .. 2 : phases[i] = "closed"

LoopSteps ==
  { <<"idle", "active">>, <<"active", "gathering">>, <<"gathering", "closing">>,
    <<"closing", "closed">> }

\* the step is the full reset: the 500 ms timer of handleDefineDone is consumed
IsResetStep == Len(shakeTimers') < Len(shakeTimers)

\* the step delivers onGatherDone / onClosingDone of box i
IsGatherDone(i) == gatherDoneCalls'[i] = gatherDoneCalls[i] + 1

IsClosingDone(i) == closingDoneCalls'[i] = closingDoneCalls[i] + 1

\* C1: between two full resets every phase change of a box is one of
\* idle -> active, active -> gathering, gathering -> closing, closing -> closed
\* (nothing skipped, nothing repeated, nothing backwards), and a full reset
\* only happens once every box is closed.
C1_PhaseOrder ==
  [][ IF IsResetStep
      THEN AllBoxesClosed
      ELSE \A i \in 0 .. 2 :
             phases'[i] = phases[i] \/ <<phases[i], phases'[i]>> \in LoopSteps ]_vars

C1_Witness == phases[0] = "closed" /\ phases[1] = "closing" /\ resetKey = 1

C3_ClickOnlyWhenActive ==
  [][ \A i \in 0 .. 2 :
        input' = << i >> =>
          IF phases[i] = "active"
          THEN phases' = [phases EXCEPT ![i] = "gathering"]
          ELSE UNCHANGED << phases, defineSceneActive, isShaking, resetKey, shakeTimers,
                            wp, scene, def >> ]_vars

C3_Witness ==
  /\ input = << 1 >> /\ phases[1] = "idle" /\ phases[0] = "closing"

\* C4: before any handler has run the phases are [active, idle, idle], no
\* scene is active, the shake flag is false and the reset counter is 0.
C4_InitialState ==
  lastHandler.type = "init" =>
    /\ phases = StartPhases
    /\ ~defineSceneActive
    /\ ~isShaking
    /\ resetKey = 0
    /\ \A i \in 0 .. 2 : ~scene[i].mounted /\ ~def[i].mounted

C4_Witness == lastHandler.type = "init" /\ wp[0].frames = 0 /\ wp[2].frames = 1

\* C5: onClosingDone of box i sets box i to closed and, when i is not the last
\* box, box i + 1 from idle to active in the same step, every other box kept;
\* after box 0's cycle the phases are [closed, active, idle] and after the
\* last box's cycle [closed, closed, closed].
C5_ClosingDone ==
  /\ [][ \A i \in 0 .. 2 :
           IsClosingDone(i) =>
             /\ phases[i] = "closing" /\ phases'[i] = "closed"
             /\ i < 2 => phases[i + 1] = "idle" /\ phases'[i + 1] = "active"
             /\ \A j \in 0 .. 2 : (j # i /\ j # i + 1) => phases'[j] = phases[j] ]_vars
  /\ [](lastHandler = [type |-> "closingDone", box |-> 0] =>
          phases = (0 :> "closed") @@ (1 :> "active") @@ (2 :> "idle"))
  /\ [](lastHandler = [type |-> "closingDone", box |-> 2] =>
          phases = (0 :> "closed") @@ (1 :> "closed") @@ (2 :> "closed"))

C5_Witness ==
  /\ lastHandler = [type |-> "closingDone", box |-> 1]
  /\ phases = (0 :> "closed") @@ (1 :> "closed") @@ (2 :> "active")

\* C6: the stick-figure scene (vignette A) is mounted exactly while all three
\* boxes are closed, only on the last (deploy) box, and its activation effect
\* has run exactly once for that mount; it is activated by the step that
\* delivers onClosingDone of the last box and only leaves with the full reset,
\* so it is activated exactly once per loop.
C6_SceneAOncePerLoop ==
  /\ [](\A i \in 0 .. 2 :
          /\ scene[i].mounted <=> (i = 2 /\ AllBoxesClosed)
          /\ scene[i].mounted => scene[i].sceneKey = 1 /\ BOX_DATA[i + 1].id = "deploy")
  /\ [][ \A i \in 0 .. 2 :
           /\ (~scene[i].mounted /\ scene'[i].mounted) => IsClosingDone(2)
           /\ (scene[i].mounted /\ ~scene'[i].mounted) => IsResetStep
           /\ scene[i].mounted => scene'[i].sceneKey <= 1 ]_vars
  /\ [][ IsResetStep => scene[2].mounted ]_vars

C6_Witness ==
  /\ scene[2].mounted /\ scene[2].t = {DEPLOY_SCENE_MS}
  /\ lastHandler = [type |-> "closingDone", box |-> 2] /\ resetKey = 1

\* C7: the full reset happens 500 ms after the define scene (vignette B)
\* delivered its completion callback; it leaves the phases [active, idle, idle]
\* and the reset counter exactly one above the value it had when vignette B
\* completed (the counter does not move from that completion until the reset).
C7_ResetAfterShake ==
  /\ [][ IsResetStep =>
           /\ lastHandler.type = "defineDone" /\ sinceHandler = 500
           /\ phases' = StartPhases
           /\ resetKey' = resetKey + 1 ]_vars
  /\ [][ lastHandler'.type = "defineDone" => resetKey' = resetKey ]_vars
  /\ [](lastHandler.type = "defineDone" => Len(shakeTimers) = 1)

C7_Witness ==
  /\ lastHandler.type = "reset" /\ sinceHandler = 0 /\ resetKey = 1 /\ phases = StartPhases

\* C8: the reset counter changes only in the full reset, there by exactly +1
\* and from a state in which all boxes are closed; every return of box 0 to
\* active is such a reset, so the counter moves exactly once per loop and
\* never on a click, a gather or closing completion, a scene completion or a
\* frame.
C8_ResetCounter ==
  /\ [][ resetKey' # resetKey =>
           /\ IsResetStep
           /\ resetKey' = resetKey + 1
           /\ AllBoxesClosed
           /\ phases' = StartPhases ]_vars
  /\ [][ IsResetStep => resetKey' = resetKey + 1 ]_vars
  /\ [][ (phases[0] # "active" /\ phases'[0] = "active") => resetKey' = resetKey + 1 ]_vars

C8_Witness == resetKey = 2 /\ lastHandler.type = "reset"

\* C9: the steps after the last box closed come in the order: vignette A
\* completes (4500 ms after the last closing-complete), which activates
\* vignette B on the first (define) box; vignette B completes (5000 ms later),
\* which starts the shake; then the full reset.  Vignette B is never mounted
\* before vignette A's callback has fired, and the shake and the reset never
\* come before vignette B's callback has fired.
C9_SceneOrder ==
  /\ [](\A i \in 0 .. 2 :
          def[i].mounted =>
            /\ i = 0 /\ BOX_DATA[i + 1].id = "define"
            /\ scene[2].mounted /\ scene[2].done /\ scene[2].t = {})
  /\ [](isShaking => def[0].mounted /\ def[0].tDone = {} /\ defineSceneActive)
  /\ [][ lastHandler' # lastHandler =>
           /\ lastHandler'.type = "deployDone" =>
                /\ lastHandler = [type |-> "closingDone", box |-> 2]
                /\ sinceHandler = 4500
                /\ ~defineSceneActive /\ defineSceneActive' /\ def'[0].mounted
           /\ lastHandler'.type = "defineDone" =>
                /\ lastHandler.type = "deployDone" /\ sinceHandler = 5000
                /\ ~isShaking /\ isShaking'
           /\ lastHandler'.type = "reset" => lastHandler.type = "defineDone" /\ isShaking ]_vars
  /\ [][ /\ (~defineSceneActive /\ defineSceneActive') => lastHandler'.type = "deployDone"
         /\ (~isShaking /\ isShaking') => lastHandler'.type = "defineDone"
         /\ IsResetStep => lastHandler'.type = "reset" ]_vars

C9_Witness ==
  /\ isShaking /\ lastHandler.type = "defineDone" /\ def[0].done /\ resetKey = 1

\* the user eventually clicks the box that is active
ClickFairness == \A i \in Boxes : WF_vars(Click(i) /\ isActive(phases[i]))

\* C10: if timers fire, then from every state with all three boxes closed the
\* reset state [active, idle, idle] is reached without any user input; if in
\* addition the user eventually clicks each active box, every loop the user
\* may start ends in the next reset.
C10_LoopLiveness ==
  /\ AllBoxesClosed ~> (phases = StartPhases)
  /\ ClickFairness =>
       \A k \in 0 .. (MaxResets - 1) : (resetKey = k) ~> (resetKey = k + 1 /\ phases = StartPhases)

C10_Witness ==
  /\ phases = StartPhases /\ resetKey = MaxResets /\ lastHandler.type = "reset"

\* the particles of the animate() call being stepped through
SimIndices == 1 .. Len(sim.ps)

\* C11: at the end of every animate() call every particle's position
\* satisfies 0 <= x <= W and 0 <= y <= H.  (Refuted: the position is advanced
\* after the wall tests, so a particle within one step of a wall and heading
\* outwards ends the call beyond the wall.)
C11_InBounds ==
  sim.pc = "done" =>
    \A k \in SimIndices :
      /\ 0 <= sim.ps[k].x /\ sim.ps[k].x <= 16000
      /\ 0 <= sim.ps[k].y /\ sim.ps[k].y <= 16000

\* squared speed of a particle
Speed2(p) == p.vx * p.vx + p.vy * p.vy

\* C12: at the end of every animate() call every particle's speed is SPEED
\* (to within one unit of the arithmetic, 0.01 px per frame) or exactly zero;
\* whatever the impulses did to a velocity during the call has been rescaled.
C12_SpeedFixed ==
  sim.pc = "done" =>
    \A k \in SimIndices :
      \/ sim.ps[k].vx = 0 /\ sim.ps[k].vy = 0
      \/ 34 * 34 <= Speed2(sim.ps[k]) /\ Speed2(sim.ps[k]) <= 36 * 36

\* a call has ended with one particle at rest and another one turned by an
\* impulse and rescaled
C12_Witness ==
  /\ sim.pc = "done"
  /\ \E k \in SimIndices : sim.ps[k].vx = 0 /\ sim.ps[k].vy = 0
  /\ \E k \in SimIndices :
       /\ Speed2(sim.ps[k]) > 0
       /\ << sim.ps[k].vx, sim.ps[k].vy >> \notin
            { << sim.start[k].vx, sim.start[k].vy >>, << -sim.start[k].vx, sim.start[k].vy >>,
              << sim.start[k].vx, -sim.start[k].vy >>, << -sim.start[k].vx, -sim.start[k].vy >> }

\* d is the distance of (dx, dy) rounded to the nearest unit
IsDist(d, dx, dy) ==
  LET n == dx * dx + dy * dy
  IN  IF n = 0 THEN d = 0 ELSE d > 0 /\ d * d - d < n /\ n <= d * d + d

\* one pass of the inner loop did to the pair (p, q) what the claim says
RepelledAsClaimed(p, q, pNew, qNew) ==
  LET dx == p.x - q.x
      dy == p.y - q.y
      d  == Hypot(dx, dy)
      ix == pNew.vx - p.vx
      iy == pNew.vy - p.vy
  IN  /\ IsDist(d, dx, dy)
      /\ qNew.vx - q.vx = -ix /\ qNew.vy - q.vy = -iy
      /\ << pNew.x, pNew.y, qNew.x, qNew.y >> = << p.x, p.y, q.x, q.y >>
      /\ IF 0 < d /\ d < 6000
         THEN /\ Abs(ix * d * 6000 - dx * (6000 - d) * 25) <= (d * 6000) \div 2
              /\ Abs(iy * d * 6000 - dy * (6000 - d) * 25) <= (d * 6000) \div 2
              /\ ix * dx + iy * dy >= 0
              /\ (ix # 0 \/ iy # 0) => ix * dx + iy * dy > 0
         ELSE ix = 0 /\ iy = 0

\* C13: a pass of the inner loop changes the velocities of the pair (p, q) iff
\* 0 < d < R; then p gains ((R - d) / R) * F along the unit vector from q to
\* p (each component to within half a unit of the arithmetic) and q gains the
\* exact opposite, which pushes them apart; with d = 0 or d >= R both
\* velocities stay as they were.  No other particle is touched.
C13_Repulsion ==
  [][sim.pc = "repel" =>
       /\ RepelledAsClaimed(sim.ps[sim.i], sim.ps[sim.j], sim'.ps[sim.i], sim'.ps[sim.j])
       /\ \A k \in SimIndices \ {sim.i, sim.j} : sim'.ps[k] = sim.ps[k]]_vars

\* the first pass of a call has pushed the first two particles, less than R
\* apart, away from each other
C13_Witness ==
  /\ sim.pc = "repel" /\ sim.i = 1 /\ sim.j = 3
  /\ Hypot(sim.ps[1].x - sim.ps[2].x, sim.ps[1].y - sim.ps[2].y) \in 1 .. 5999
  /\ << sim.ps[2].vx, sim.ps[2].vy >> # << sim.start[2].vx, sim.start[2].vy >>

\* the phases in which the words are drawn from the snapshot
Frozen == {"gathering", "closing"}

\* the positions of the particles of box i, as a snapshot holds them
PositionsOf(i) ==
  [k \in 1 .. Len(wp[i].particles) |-> [x |-> wp[i].particles[k].x, y |-> wp[i].particles[k].y]]

\* C14: the snapshot taken when a box enters gathering holds the positions
\* that box's particles have at that moment (the particles created in the
\* current loop), it replaces no older snapshot, and no step changes it while
\* the box stays in gathering or closing.
C14_SnapshotStable ==
  [][\A i \in Boxes :
       /\ (phases[i] \notin Frozen /\ phases'[i] = "gathering") =>
            /\ wp[i].frozen = << >>
            /\ wp[i].particles # << >>
            /\ wp'[i].frozen = << PositionsOf(i) >>
       /\ (phases[i] \in Frozen /\ phases'[i] \in Frozen) =>
            /\ wp[i].frozen # << >>
            /\ wp'[i].frozen = wp[i].frozen]_vars

\* in the second loop a box is closing with the snapshot of particles that
\* have moved since they were created
C14_Witness ==
  /\ resetKey = 1
  /\ phases[1] = "closing"
  /\ wp[1].frames > 0
  /\ wp[1].frozen = << PositionsOf(1) >>

\* C15: a box holds a snapshot only while its phase is gathering or closing;
\* in idle and active, after a reset too, and in closed there is none.
C15_SnapshotOnlyFrozen ==
  \A i \in Boxes : wp[i].frozen # << >> => phases[i] \in Frozen

\* after a reset: the first box is closed again, the second holds a snapshot,
\* the third is idle without one
C15_Witness ==
  /\ resetKey = 1
  /\ phases = (0 :> "closed") @@ (1 :> "gathering") @@ (2 :> "idle")
  /\ wp[1].frozen # << >>
  /\ wp[0].frozen = << >> /\ wp[2].frozen = << >>

\* box i has run an animate() call in this step
IsTick(i) == wp'[i].frames > wp[i].frames

Shown(s) == s.mounted /\ ~s.done

\* the boxes whose scenes are given an onDone callback
DeployBox == CHOOSE i \in Boxes : Box(i).id = "deploy"
DefineBox == CHOOSE i \in Boxes : Box(i).id = "define"

\* C17, as stated: a scene stops being shown strictly later than 4500 ms
\* (StickFigureScene) or 5000 ms (DefineScene) after its activation.
C17_HiddenAfterDuration ==
  [][\A i \in Boxes :
       /\ (Shown(scene[i]) /\ ~Shown(scene'[i])) => activations[i].sceneAge > 4500
       /\ (Shown(def[i]) /\ ~Shown(def'[i])) => activations[i].defAge > 5000]_vars

\* C17, amended: each scene is hidden by its own timer and by nothing else,
\* and always is: the StickFigureScene exactly 4500 ms after its activation,
\* which is later than its 4400 ms of animation but at the very moment its
\* completion is reported, the DefineScene 5100 ms after its activation,
\* strictly later than its 5000 ms.
C17_HiddenByOwnTimer ==
  /\ [][\A i \in Boxes :
          /\ (Shown(scene[i]) /\ ~Shown(scene'[i])) =>
               /\ 0 \in scene[i].t /\ scene'[i].mounted /\ scene'[i].done
               /\ activations[i].sceneAge = 4500
               /\ activations[i].sceneAge > DEPLOY_ANIM_MS
          /\ (Shown(def[i]) /\ ~Shown(def'[i])) =>
               /\ 0 \in def[i].tUnmount /\ def'[i].mounted /\ def'[i].done
               /\ activations[i].defAge = 5100
               /\ activations[i].defAge > DEFINE_ANIM_MS]_vars
  /\ \A i \in Boxes :
       /\ Shown(scene[i]) ~> ~Shown(scene[i])
       /\ Shown(def[i]) ~> ~Shown(def[i])

\* both scenes of a loop have been shown and hidden again, nothing has been
\* reset yet
C17_Witness ==
  /\ scene[DeployBox].mounted /\ scene[DeployBox].done
  /\ def[DefineBox].mounted /\ def[DefineBox].done
  /\ activations[DefineBox].defAge = 5100

\* C18: every activation of a scene is followed by exactly one call of its
\* onDone, made 4500 ms (StickFigureScene) or 5000 ms (DefineScene) after the
\* activation: until then the activation has had no call, from then on it
\* has had one, and it always gets it.
C18_DoneOncePerActivation ==
  /\ [](\A i \in Boxes :
         /\ doneCalls[i].scene =
              (IF i = DeployBox /\ scene[i].t # {}
               THEN activations[i].scene - 1 ELSE activations[i].scene)
         /\ doneCalls[i].def =
              (IF i = DefineBox /\ def[i].tDone # {}
               THEN activations[i].def - 1 ELSE activations[i].def))
  /\ [][\A i \in Boxes :
          /\ doneCalls'[i].scene # doneCalls[i].scene =>
               /\ doneCalls'[i].scene = doneCalls[i].scene + 1
               /\ activations[i].sceneAge = 4500
          /\ doneCalls'[i].def # doneCalls[i].def =>
               /\ doneCalls'[i].def = doneCalls[i].def + 1
               /\ activations[i].defAge = 5000]_vars
  /\ \A i \in Boxes :
       /\ scene[i].t # {} ~> scene[i].t = {}
       /\ def[i].tDone # {} ~> def[i].tDone = {}

\* in the second loop both scenes have been activated twice and have called
\* onDone twice
C18_Witness ==
  /\ activations[DeployBox].scene = 2 /\ doneCalls[DeployBox].scene = 2
  /\ activations[DefineBox].def = 2 /\ doneCalls[DefineBox].def = 2

\* an activation of the scene instance s happens in this step
IsActivation(old, new) == new > old

\* C19, as stated: the sceneKey an activation gives a scene is strictly
\* greater than the sceneKey of every earlier activation of that scene, those
\* of earlier loops included.
C19_TokenIncreasing ==
  [][\A i \in Boxes :
       /\ IsActivation(activations[i].scene, activations'[i].scene) =>
            scene'[i].sceneKey > activations[i].sceneToken
       /\ IsActivation(activations[i].def, activations'[i].def) =>
            def'[i].sceneKey > activations[i].defToken]_vars

\* C19, amended: an activation adds one to the sceneKey of the scene
\* instance; the instance is new in every loop, since the reset unmounts the
\* scenes, so the counter starts from 0 again and every activation has
\* sceneKey 1, the one of the loop before included.
C19_TokenPerInstance ==
  /\ [](\A i \in Boxes :
         /\ scene[i].sceneKey = (IF scene[i].mounted THEN 1 ELSE 0)
         /\ def[i].sceneKey = (IF def[i].mounted THEN 1 ELSE 0))
  /\ [][\A i \in Boxes :
          /\ IsActivation(activations[i].scene, activations'[i].scene) =>
               /\ ~scene[i].mounted
               /\ scene'[i].sceneKey = scene[i].sceneKey + 1
               /\ (activations[i].scene > 0 =>
                     scene'[i].sceneKey = activations[i].sceneToken)
          /\ IsActivation(activations[i].def, activations'[i].def) =>
               /\ ~def[i].mounted
               /\ def'[i].sceneKey = def[i].sceneKey + 1
               /\ (activations[i].def > 0 =>
                     def'[i].sceneKey = activations[i].defToken)]_vars

\* the second activation of each scene is under way
C19_Witness ==
  /\ activations[DeployBox].scene = 2 /\ activations[DefineBox].def = 2
  /\ Shown(def[DefineBox])
  /\ def[DefineBox].sceneKey = 1

SpansOf(i) ==
  { wp[i].renders[n][idx] : n \in 1 .. Len(wp[i].renders),
                            idx \in 1 .. Len(wp[i].particles) }

\* C21: a step into or within gathering and closing leaves the particles
\* where the last animate() call put them; the snapshot entry of particle id
\* k is that position, and so is the base position (left, top) of its span in
\* both renders of the commit, the first of which is made before the snapshot
\* exists: the words do not jump.
C21_NoJump ==
  /\ [](\A i \in Boxes : phases[i] \in {"gathering", "closing"} =>
         /\ Len(wp[i].renders) = 2
         /\ \A n \in 1 .. 2 : Len(wp[i].renders[n]) = Len(wp[i].particles)
         /\ \A idx \in 1 .. Len(wp[i].particles) :
              LET q == wp[i].particles[idx]
              IN  /\ wp[i].frozen[1][q.id + 1] = [x |-> q.x, y |-> q.y]
                  /\ \A n \in 1 .. 2 :
                       /\ wp[i].renders[n][idx].id = q.id
                       /\ wp[i].renders[n][idx].base = [x |-> q.x, y |-> q.y])
  /\ [][\A i \in Boxes : phases'[i] \in {"gathering", "closing"} =>
          wp'[i].particles = wp[i].particles]_vars

\* the second box is gathering after its particles were animated, away from
\* where they were created
C21_Witness ==
  /\ phases[1] = "gathering"
  /\ wp[1].frames = 2
  /\ Len(wp[1].renders) = 2
  /\ wp[1].renders[1][1].base = wp[1].frozen[1][1]

\* C22: in gathering the span at render index idx (0-based) is taken to
\* x = W / 2 = 80 and y = 148 - 20 * idx, which for each of the words of the
\* box lies within 0 .. H; index 0 is lowest and each next one 20 higher.
C22_GatherTarget ==
  \A i \in Boxes : phases[i] = "gathering" =>
    \A n \in 1 .. Len(wp[i].renders) :
      /\ Len(wp[i].renders[n]) = Len(BOX_DATA[i + 1].words)
      /\ \A idx \in 1 .. Len(wp[i].renders[n]) :
           LET t == wp[i].renders[n][idx].target
           IN  /\ t.x = 8000
               /\ t.y = 14800 - 2000 * (idx - 1)
               /\ 0 <= t.y /\ t.y <= 16000
               /\ idx > 1 => t.y = wp[i].renders[n][idx - 1].target.y - 2000

\* the third box is gathering: its six words are sent to the column
C22_Witness ==
  /\ phases[2] = "gathering"
  /\ Len(wp[2].renders) = 2
  /\ Len(wp[2].renders[2]) = 6
  /\ wp[2].renders[2][6].target.y = 4800

\* C23: the timer that ends gathering (closing) fires no earlier than the
\* transition of any word ends, that is its delay plus its duration after the
\* phase was entered.  (Refuted for gathering: the words at index 4 and 5 end
\* their transition 680 ms and 720 ms after the click, the timer fires at 660.)
C23_TimerCoversTransition ==
  \A i \in Boxes :
    /\ \A r \in wp[i].gatherT : \A sp \in SpansOf(i) :
         sp.transition.delay + sp.transition.duration <= sinceHandler + r
    /\ \A r \in wp[i].closingT : \A sp \in SpansOf(i) :
         sp.transition.delay + sp.transition.duration <= sinceHandler + r

\* the state a loop starts in, the reset counter apart: the first box
\* active, no shake, no scene, every box with newly created particles and one
\* frame requested, no snapshot, no timer of any kind
FreshLoop ==
  /\ phases = (0 :> "active") @@ (1 :> "idle") @@ (2 :> "idle")
  /\ ~isShaking /\ ~defineSceneActive
  /\ shakeTimers = << >>
  /\ \A i \in Boxes :
       /\ ~scene[i].mounted /\ scene[i].t = {}
       /\ ~def[i].mounted /\ def[i].tDone = {} /\ def[i].tUnmount = {}
       /\ wp[i].mounted /\ wp[i].frozen = << >>
       /\ wp[i].gatherT = {} /\ wp[i].closingT = {}
       /\ ~wp[i].gatherFired /\ ~wp[i].closingFired
       /\ wp[i].rafPending = {1} /\ wp[i].rafRef = 1
       /\ wp[i].frames = 0
       /\ Len(wp[i].particles) = Len(BOX_DATA[i + 1].words)

\* C24: the reset is one step; it starts with the shake on and both scenes
\* mounted, adds one to the reset counter, and ends in the state a loop
\* starts in, which is what the initial state is too.
C24_ResetToFreshLoop ==
  /\ FreshLoop
  /\ [][Len(shakeTimers') < Len(shakeTimers) =>
          /\ isShaking /\ defineSceneActive
          /\ \E i \in Boxes : scene[i].mounted
          /\ \E i \in Boxes : def[i].mounted
          /\ resetKey' = resetKey + 1
          /\ FreshLoop']_vars

\* the second reset has just happened
C24_Witness ==
  /\ resetKey = 2
  /\ lastHandler.type = "reset" /\ sinceHandler = 0
  /\ FreshLoop

\* C25: particles appear only in a box that is idle or active and has none;
\* a list that exists is changed by animate() calls and dropped with the box's
\* WordParticles, never replaced; the step from idle to active keeps it as it
\* is; at a reset no box has particles left and every box gets a new list.
C25_ParticlesCreatedOnce ==
  [][\A i \in Boxes :
       /\ (wp[i].particles = << >> /\ wp'[i].particles # << >>) =>
            phases'[i] \in {"idle", "active"}
       /\ (wp[i].particles # << >> /\ wp'[i].particles # wp[i].particles) =>
            \/ wp'[i].frames > wp[i].frames
            \/ wp'[i].particles = << >> /\ ~wp'[i].mounted
       /\ (phases[i] = "idle" /\ phases'[i] = "active") =>
            /\ wp'[i].particles = wp[i].particles
            /\ wp[i].particles # << >>
       /\ (Len(shakeTimers') < Len(shakeTimers)) =>
            /\ wp[i].particles = << >>
            /\ Len(wp'[i].particles) = Len(BOX_DATA[i + 1].words)
            /\ wp'[i].frames = 0]_vars

\* in the second loop the second box has become active with particles that
\* were animated while it was idle
C25_Witness ==
  /\ resetKey = 1
  /\ phases[1] = "active"
  /\ lastHandler = [type |-> "closingDone", box |-> 0] /\ sinceHandler = 0
  /\ wp[1].frames > 0

\* C26: every box shakes exactly from the onDone call of the DefineScene
\* until the reset 500 ms later, all of them together, and this happens once
\* in every loop.
C26_ShakeInterval ==
  /\ [](\A i \in Boxes :
         /\ boxShake(i, isShaking) <=> lastHandler.type = "defineDone"
         /\ boxShake(i, isShaking) => sinceHandler <= 500
         /\ doneCalls[DefineBox].def = resetKey + (IF boxShake(i, isShaking) THEN 1 ELSE 0))
  /\ [][((~isShaking /\ isShaking') => doneCalls'[DefineBox].def = doneCalls[DefineBox].def + 1)
          /\ ((isShaking /\ ~isShaking') =>
                (sinceHandler = 500 /\ resetKey' = resetKey + 1))]_vars

\* the boxes are shaking for the second time
C26_Witness ==
  /\ isShaking
  /\ resetKey = 1
  /\ sinceHandler = 500

\* C29: only the reset takes a box out of closed; a closed box shows its
\* closed label, any other box its normal label.
C29_ClosedIsTerminal ==
  /\ [](\A i \in Boxes :
         shownLabel(i, phases[i]) =
           (IF phases[i] = "closed"
            THEN << "DEFINED", "DECIDED", "DEPLOYED" >>[i + 1]
            ELSE << "DEFINE", "DECIDE", "DEPLOY" >>[i + 1]))
  /\ [][\A i \in Boxes :
          (phases[i] = "closed" /\ phases'[i] # "closed") =>
            /\ Len(shakeTimers') < Len(shakeTimers)
            /\ \A j \in Boxes : phases[j] = "closed"]_vars

\* the closed first box has just been clicked, with the second box gathering
C29_Witness ==
  /\ phases[0] = "closed"
  /\ phases[1] = "gathering"
  /\ input = << 0 >>

\* C30: an animate() call of box i changes the particles, frame request and
\* render of box i and nothing else; while box i is gathering or closing its
\* particles stay as they are (the step to closed drops them with the
\* component).
C30_ParticlesOwnedByTick ==
  [][\A i \in Boxes :
       /\ (wp'[i].frames > wp[i].frames) =>
            /\ \A j \in Boxes \ {i} : wp'[j] = wp[j]
            /\ UNCHANGED << phases, defineSceneActive, isShaking, resetKey, shakeTimers,
                            scene, def >>
            /\ wp'[i] = [wp[i] EXCEPT !.particles = wp'[i].particles,
                                      !.rafRef = wp'[i].rafRef,
                                      !.rafPending = wp'[i].rafPending,
                                      !.frames = wp'[i].frames,
                                      !.renders = wp'[i].renders]
            /\ phases[i] \in {"idle", "active"}
       /\ (phases[i] \in {"gathering", "closing"}) =>
            \/ wp'[i].particles = wp[i].particles
            \/ phases'[i] = "closed" /\ ~wp'[i].mounted]_vars

\* the second box is closing with the particles two animate() calls have
\* moved, while the third box has been animated too
C30_Witness ==
  /\ phases[1] = "closing"
  /\ wp[1].frames = 2
  /\ wp[2].frames > 0

\* C27, as stated: within one animate() call every particle has its wall
\* tests before any impulse it receives, every impulse before its
\* normalisation, its normalisation before its integration.
C27_StageOrder ==
  sim.pc = "done" =>
    \A k \in 1 .. Len(sim.ps) :
      LET lg == sim.log[k]
      IN  /\ Len(lg) >= 3
          /\ lg[1].op = "wall"
          /\ \A n \in 2 .. (Len(lg) - 2) : lg[n].op = "repel"
          /\ lg[Len(lg) - 1].op = "normalise"
          /\ lg[Len(lg)].op = "integrate"

\* C27, amended: within one animate() call a particle first receives the
\* impulses of its pairs with particles of lower index, in the inner loops
\* of those particles, then has its own wall tests, then the impulses of its
\* pairs with particles of higher index, then its normalisation, then its
\* integration.
C27_StageOrderPerParticle ==
  sim.pc = "done" =>
    \A k \in 1 .. Len(sim.ps) :
      LET lg == sim.log[k]
      IN  \E w \in 1 .. (Len(lg) - 2) :
            /\ \A n \in 1 .. (w - 1) : lg[n].op = "repel" /\ lg[n].other < k
            /\ lg[w].op = "wall"
            /\ \A n \in (w + 1) .. (Len(lg) - 2) : lg[n].op = "repel" /\ lg[n].other > k
            /\ lg[Len(lg) - 1].op = "normalise"
            /\ lg[Len(lg)].op = "integrate"

\* a call has ended in which the second particle got an impulse from the
\* first before its wall tests and one from a later particle after them
C27_Witness ==
  /\ sim.pc = "done"
  /\ Len(sim.log[2]) >= 5
  /\ sim.log[2][1] = [op |-> "repel", other |-> 1]
  /\ sim.log[2][2].op = "wall"
  /\ sim.log[2][3].op = "repel"

\* C28, as stated: the pending frame of a box is cancelled before its phase
\* value leaves {idle, active}: whenever the phase of a box is outside
\* {idle, active}, no frame of the box is pending.
C28_CancelFirst ==
  \A i \in Boxes : (phases[i] \notin {"idle", "active"}) => wp[i].rafPending = {}

\* C28, amended: the phase value changes first, with the frame still pending
\* and no snapshot; the frame is cancelled next, before the effects run, so
\* a snapshot only exists once no frame is pending; every step of the click
\* belongs to one task, so a tick only runs outside a click, in idle or
\* active, on a box without snapshot.
C28_CancelBeforeSnapshot ==
  /\ [](\A i \in Boxes :
          /\ (sim.pc \in {"render", "cleanup"} /\ i = sim.i) =>
                /\ phases[i] = "gathering"
                /\ wp[i].rafPending # {}
                /\ wp[i].frozen = << >>
          /\ (sim.pc \in {"effects", "off"} /\ phases[i] \in Frozen) =>
                wp[i].rafPending = {}
          /\ (wp[i].frozen # << >>) => wp[i].rafPending = {})
  /\ [][\A i \in Boxes :
          (wp'[i].frames > wp[i].frames) =>
            /\ sim.pc = "off"
            /\ phases[i] \in {"idle", "active"}
            /\ wp[i].frozen = << >>]_vars

\* the second box has been clicked after two of its frames; its frame is
\* cancelled and its effects have not run yet
C28_Witness ==
  /\ sim.pc = "effects" /\ sim.i = 1
  /\ phases[1] = "gathering"
  /\ wp[1].frames = 2
  /\ wp[1].rafPending = {}
  /\ wp[1].frozen = << >>

\* the phases in which a box is the one being played
Open == {"active", "gathering", "closing"}

\* C31: a box that is active, gathering or closing has only closed boxes
\* before it and only idle boxes after it (so it is the only such box); when
\* no box is active, gathering or closing, all boxes are closed; and the
\* closing-complete of box i finds box i + 1 idle when it makes it active.
C31_OneOpenBox ==
  /\ [](/\ \A i \in Boxes :
             (phases[i] \in Open) =>
               /\ \A j \in Boxes : (j < i) => phases[j] = "closed"
               /\ \A j \in Boxes : (j > i) => phases[j] = "idle"
        /\ ((\A i \in Boxes : phases[i] \notin Open) =>
              (\A i \in Boxes : phases[i] = "closed")))
  /\ [][\A i \in Boxes :
          (phases[i] = "closing" /\ phases'[i] = "closed" /\ (i + 1) \in Boxes) =>
            /\ phases[i + 1] = "idle"
            /\ phases'[i + 1] = "active"]_vars

\* the closing-complete of the second box has just made the third active
C31_Witness ==
  /\ lastHandler = [type |-> "closingDone", box |-> 1]
  /\ sinceHandler = 0
  /\ phases[0] = "closed" /\ phases[1] = "closed" /\ phases[2] = "active"

\* C32: the define scene is only active, and the boxes only shake, when all
\* boxes are closed; the shake implies the define scene's flag; and a click
\* is only accepted when no scene is mounted and neither flag is set.
C32_ScenesOnlyWhenClosed ==
  /\ [](/\ defineSceneActive => (\A i \in Boxes : phases[i] = "closed")
        /\ isShaking => (defineSceneActive /\ \A i \in Boxes : phases[i] = "closed")
        /\ \A i \in Boxes :
             (scene[i].mounted \/ def[i].mounted) => (\A j \in Boxes : phases[j] = "closed"))
  /\ [][\A i \in Boxes :
          (phases[i] # "gathering" /\ phases'[i] = "gathering") =>
            /\ ~defineSceneActive /\ ~isShaking
            /\ \A j \in Boxes : ~scene[j].mounted /\ ~def[j].mounted]_vars

\* a click made during the shake was ignored
C32_Witness ==
  /\ isShaking /\ defineSceneActive
  /\ input # << >>
  /\ lastHandler.type = "defineDone"
  /\ \A i \in Boxes : phases[i] = "closed"

\* C33: a box never has more than one animate() callback pending; in idle
\* and active it has exactly one, the one rafRef holds, and in every other
\* phase none.
C33_OneFramePending ==
  \A i \in Boxes :
    /\ Cardinality(wp[i].rafPending) <= 1
    /\ (phases[i] \in {"idle", "active"}) =>
         /\ wp[i].mounted
         /\ wp[i].rafPending = {wp[i].rafRef}
         /\ wp[i].rafRef # 0
    /\ (phases[i] \notin {"idle", "active"}) => wp[i].rafPending = {}

\* in the loop after a reset the second box has become active, after frames
\* of its own in idle, and has one frame pending
C33_Witness ==
  /\ resetKey = 1
  /\ lastHandler = [type |-> "closingDone", box |-> 0]
  /\ phases[1] = "active"
  /\ wp[1].frames > 0
  /\ Cardinality(wp[1].rafPending) = 1

\* a coordinate after the wall tests, as the claim has it: put on the wall it
\* was beyond, else left alone
Clamped(c, hi) == IF c < 0 THEN 0 ELSE IF c > hi THEN hi ELSE c

\* C34: at the end of every animate() call every particle is within one step
\* of the area, -SPEED <= x <= W + SPEED and -SPEED <= y <= H + SPEED; and
\* the wall tests of the next call put a particle that is outside the area
\* back on the wall it crossed, and move no particle that is inside.
C34_WithinOneStep ==
  /\ [](sim.pc = "done" =>
          \A k \in SimIndices :
            /\ -35 <= sim.ps[k].x /\ sim.ps[k].x <= 16000 + 35
            /\ -35 <= sim.ps[k].y /\ sim.ps[k].y <= 16000 + 35)
  /\ [][(sim.pc = "wall") =>
          /\ sim'.ps[sim.i].x = Clamped(sim.ps[sim.i].x, 16000)
          /\ sim'.ps[sim.i].y = Clamped(sim.ps[sim.i].y, 16000)
          /\ \A k \in SimIndices : (k # sim.i) =>
               (sim'.ps[k].x = sim.ps[k].x /\ sim'.ps[k].y = sim.ps[k].y)]_vars

\* the first call left the first particle beyond the right wall, and the
\* wall tests of the second call have put it back on the wall
C34_Witness ==
  /\ sim.frame = 2
  /\ sim.start[1].x > 16000
  /\ sim.i = 1 /\ sim.pc = "repel" /\ sim.j = 2
  /\ sim.ps[1].x = 16000

\* the state of ScreensaverHero
Orchestrator == << phases, defineSceneActive, isShaking, resetKey >>

\* C35: while a box is gathering or closing its completion timer is the only
\* pending timer and no box is active, so its timer is the only event that
\* changes the state of ScreensaverHero: gather-complete makes the box
\* closing, closing-complete makes it closed.  A pending gather or closing
\* timer goes away only by firing, and a box that is gathering reaches
\* closed.
C35_TransitionUndisturbed ==
  /\ [](\A i \in Boxes :
          /\ (phases[i] = "gathering") =>
               (wp[i].gatherT # {} /\ PendingTimers = wp[i].gatherT)
          /\ (phases[i] = "closing") =>
               (wp[i].closingT # {} /\ PendingTimers = wp[i].closingT)
          /\ (phases[i] \in Frozen) => (\A j \in Boxes : phases[j] # "active"))
  /\ [][\A i \in Boxes :
          /\ (phases[i] = "gathering" /\ Orchestrator' # Orchestrator) =>
               /\ 0 \in wp[i].gatherT
               /\ Orchestrator' = << [phases EXCEPT ![i] = "closing"], defineSceneActive,
                                     isShaking, resetKey >>
          /\ (phases[i] = "closing" /\ Orchestrator' # Orchestrator) =>
               /\ 0 \in wp[i].closingT
               /\ phases'[i] = "closed"
               /\ << defineSceneActive', isShaking', resetKey' >> =
                    << defineSceneActive, isShaking, resetKey >>
          /\ (wp[i].gatherT # {} /\ wp'[i].gatherT = {}) =>
               (0 \in wp[i].gatherT /\ phases'[i] = "closing")
          /\ (wp[i].closingT # {} /\ wp'[i].closingT = {}) =>
               (0 \in wp[i].closingT /\ phases'[i] = "closed")]_vars
  /\ \A i \in Boxes : (phases[i] = "gathering") ~> (phases[i] = "closed")

\* the second box is closing, part of its 560 ms have passed, and a click has
\* just been made on an idle box
C35_Witness ==
  /\ phases[0] = "closed" /\ phases[1] = "closing" /\ phases[2] = "idle"
  /\ wp[1].closingT # {} /\ CLOSING_MS \notin wp[1].closingT
  /\ input = << 2 >>

\* the box whose closing-complete leaves all boxes closed
LastBox == CHOOSE i \in Boxes : \A j \in Boxes : j <= i

\* C36: the handlers of a loop follow one another at fixed delays.  After
\* the accepted click on box i, gather-complete runs 660 ms later and
\* closing-complete 560 ms after that, 1220 ms after the click; after the
\* closing-complete of the last box the deploy scene completes 4500 ms
\* later, the define scene 5000 ms after that and the reset 500 ms after
\* that, 10000 ms after the last box closed, which is the age of the deploy
\* scene mounted at that moment.  Between two of these handlers no other
\* handler runs, whatever frames and clicks happen meanwhile.
C36_FixedDelays ==
  [][/\ \A i \in Boxes :
          /\ (phases[i] = "gathering" /\ phases'[i] # "gathering") =>
               /\ phases'[i] = "closing"
               /\ lastHandler = [type |-> "click", box |-> i]
               /\ sinceHandler = 660
          /\ (phases[i] = "closing" /\ phases'[i] # "closing") =>
               /\ phases'[i] = "closed"
               /\ lastHandler = [type |-> "gatherDone", box |-> i]
               /\ sinceHandler = 560
     /\ (~defineSceneActive /\ defineSceneActive') =>
          /\ lastHandler = [type |-> "closingDone", box |-> LastBox]
          /\ sinceHandler = 4500
     /\ (~isShaking /\ isShaking') =>
          /\ lastHandler.type = "deployDone"
          /\ sinceHandler = 5000
     /\ (resetKey' # resetKey) =>
          /\ lastHandler.type = "defineDone"
          /\ sinceHandler = 500
          /\ activations[DeployBox].sceneAge = 10000
     /\ (lastHandler' # lastHandler) =>
          lastHandler'.type =
            CASE lastHandler.type \in {"init", "reset"} -> "click"
              [] lastHandler.type = "click" -> "gatherDone"
              [] lastHandler.type = "gatherDone" -> "closingDone"
              [] lastHandler.type = "closingDone" ->
                   IF lastHandler.box = LastBox THEN "deployDone" ELSE "click"
              [] lastHandler.type = "deployDone" -> "defineDone"
              [] lastHandler.type = "defineDone" -> "reset"]_vars

\* the reset is due: 500 ms have passed since the define scene completed,
\* and a click was made during the shake
C36_Witness ==
  /\ lastHandler.type = "defineDone"
  /\ sinceHandler = 500
  /\ Len(shakeTimers) = 1 /\ shakeTimers[1] = 0
  /\ input # << >>

\* every timer of box i's components
BoxTimers(w, s, d) == w.gatherT \cup w.closingT \cup s.t \cup d.tDone \cup d.tUnmount

\* C37: when the reset runs, its own timeout is the only timer there is and
\* no frame is pending; after it no timer is pending, so every frame and
\* timer of the new loop was requested in the new loop.  There is never more
\* than one reset timeout.
C37_NothingSurvivesReset ==
  /\ [](Len(shakeTimers) <= 1)
  /\ [][(resetKey' # resetKey) =>
          /\ shakeTimers = << 0 >>
          /\ \A i \in Boxes :
               /\ BoxTimers(wp[i], scene[i], def[i]) = {}
               /\ wp[i].rafPending = {}
          /\ shakeTimers' = << >>
          /\ \A i \in Boxes :
               /\ BoxTimers(wp'[i], scene'[i], def'[i]) = {}
               /\ Cardinality(wp'[i].rafPending) = 1]_vars

\* the state right after the first reset: no timer, one new frame per box
C37_Witness ==
  /\ resetKey = 1
  /\ lastHandler.type = "reset" /\ sinceHandler = 0
  /\ PendingTimers = {}
  /\ \A i \in Boxes : wp[i].frames = 0 /\ Cardinality(wp[i].rafPending) = 1

\* C38: a box in gathering or closing that has a snapshot has one snapshot
\* entry per particle, and the id of the particle at list index k is k (0-based),
\* a valid index of the snapshot; the list always holds one particle per word
\* of the box, in the order of the words, and does not change while the box is
\* gathering or closing.
C38_SnapshotIndexed ==
  /\ [](\A i \in Boxes :
          /\ wp[i].mounted =>
               /\ Len(wp[i].particles) = Len(Box(i).words)
               /\ \A k \in 1 .. Len(wp[i].particles) :
                    /\ wp[i].particles[k].id = k - 1
                    /\ wp[i].particles[k].word = Box(i).words[k]
          /\ (phases[i] \in Frozen /\ wp[i].frozen # << >>) =>
               /\ Len(wp[i].frozen[1]) = Len(wp[i].particles)
               /\ \A k \in 1 .. Len(wp[i].particles) :
                    (wp[i].particles[k].id + 1) \in DOMAIN wp[i].frozen[1]
               /\ \A r \in 1 .. Len(wp[i].renders) :
                    /\ Len(wp[i].renders[r]) = Len(wp[i].particles)
                    /\ \A k \in 1 .. Len(wp[i].particles) :
                         wp[i].renders[r][k].id = k - 1)
  /\ [][\A i \in Boxes :
          (phases[i] \in Frozen /\ phases'[i] \in Frozen) =>
            wp'[i].particles = wp[i].particles]_vars

\* the third box is closing with the snapshot of its six particles, taken
\* after they had moved
C38_Witness ==
  /\ phases[2] = "closing"
  /\ wp[2].frames > 0
  /\ wp[2].frozen # << >>
  /\ Len(wp[2].frozen[1]) = 6
  /\ wp[2].particles[6].id = 5
====
